---- MODULE Spec2Model ----
(***************************************************************************)
(* Model of p2p/base/transport_description.cc: the ICE credential          *)
(* validators (ParseIceUfrag, ParseIcePwd, IceParameters::Parse), the      *)
(* connection-role string conversions, and the construction, copy,         *)
(* assignment and destruction of TransportDescription values.              *)
(*                                                                         *)
(* A std::string / absl::string_view is a sequence of bytes (0..255).      *)
(***************************************************************************)
EXTENDS Integers, Sequences, FiniteSets, TLC

VARIABLES
    \* ---- credential validators: the last call, its arguments and result
    op,             \* "none", "ParseIceUfrag", "ParseIcePwd" or "Parse"
    raw_ufrag,      \* argument raw_ufrag of the last call
    raw_pwd,        \* argument raw_pwd of the last call
    result,         \* the RTCErrorOr<> the last call returned
    evaluated,      \* the validators the last call ran, in order
    \* ---- connection-role conversions
    phase,          \* "start", "named" (ConnectionRoleToString ran), "parsed"
                    \* (StringToConnectionRole ran), "named_parsed" (both)
    role,           \* argument role of ConnectionRoleToString
    role_str,       \* the caller's std::string (ToString's out, FromString's in)
    to_ok,          \* what ConnectionRoleToString returned
    origin,         \* the role whose token role_str is a case variant of, or -1
    role_out,       \* the caller's ConnectionRole (out-parameter *role)
    from_ok,        \* what StringToConnectionRole returned
    \* ---- TransportDescription instances and the fingerprint heap
    td,             \* slot -> the instance living there, or Dead
    heap,           \* address -> the SSLFingerprint stored there, or Free
    made            \* the copy made last: which slot, of which slot, by what

credVars == <<op, raw_ufrag, raw_pwd, result, evaluated>>
roleVars == <<phase, role, role_str, to_ok, origin, role_out, from_ok>>
tdVars   == <<td, heap, made>>
vars     == <<op, raw_ufrag, raw_pwd, result, evaluated,
              phase, role, role_str, to_ok, origin, role_out, from_ok,
              td, heap, made>>

-----------------------------------------------------------------------------
\* Bounds of the model.

\* Input lengths lie within LenSlack of 0 and of each length constant.
LenSlack == 1
\* Number of TransportDescription objects that can be alive at once.
MaxTD == 2

-----------------------------------------------------------------------------
\* Protocol constants of p2p/base/p2p_constants.h (RFC 5245 section 15.4).

ICE_UFRAG_MIN_LENGTH == 4
ICE_UFRAG_MAX_LENGTH == 256
ICE_PWD_MIN_LENGTH == 22
ICE_PWD_MAX_LENGTH == 256

-----------------------------------------------------------------------------
\* Bytes.

Byte == 0..255

\* absl::ascii_isalnum: '0'..'9', 'A'..'Z', 'a'..'z'; false for bytes >= 128.
ascii_isalnum(c) ==
    \/ (48 <= c /\ c <= 57)
    \/ (65 <= c /\ c <= 90)
    \/ (97 <= c /\ c <= 122)

\* A mutant: '/' (47) is taken for the lower end of the digits and '+' is lost.
IsIceChar_NoPlus(c) == ascii_isalnum(c) \/ c = 47

IsIceChar(c) == ascii_isalnum(c) \/ c = 43 \/ c = 47

\* absl::c_all_of(s, IsIceChar)
AllIceChars(s) == \A i \in 1..Len(s) : IsIceChar(s[i])

-----------------------------------------------------------------------------
\* RTCErrorOr<T>: a value, or an RTCError with a type and a message.

Value(v) == [ok |-> TRUE, value |-> v]
RTCError(type, message) == [ok |-> FALSE, type |-> type, message |-> message]

ParseIceUfrag(raw) ==
    IF ~(ICE_UFRAG_MIN_LENGTH <= Len(raw) /\ Len(raw) <= ICE_UFRAG_MAX_LENGTH)
    THEN RTCError("SYNTAX_ERROR",
                  "ICE ufrag must be between " \o ToString(ICE_UFRAG_MIN_LENGTH)
                  \o " and " \o ToString(ICE_UFRAG_MAX_LENGTH)
                  \o " characters long.")
    ELSE IF ~AllIceChars(raw)
    THEN RTCError("SYNTAX_ERROR",
           "ICE ufrag must contain only alphanumeric characters, '+', and '/'.")
    ELSE Value(raw)

\* A mutant: the character set checked before the length.
ParseIcePwd_CharsFirst(raw) ==
    IF ~AllIceChars(raw)
    THEN RTCError("SYNTAX_ERROR",
           "ICE pwd must contain only alphanumeric characters, '+', and '/'.")
    ELSE IF ~(ICE_PWD_MIN_LENGTH <= Len(raw) /\ Len(raw) <= ICE_PWD_MAX_LENGTH)
    THEN RTCError("SYNTAX_ERROR",
                  "ICE pwd must be between " \o ToString(ICE_PWD_MIN_LENGTH)
                  \o " and " \o ToString(ICE_PWD_MAX_LENGTH)
                  \o " characters long.")
    ELSE Value(raw)

ParseIcePwd(raw) ==
    IF ~(ICE_PWD_MIN_LENGTH <= Len(raw) /\ Len(raw) <= ICE_PWD_MAX_LENGTH)
    THEN RTCError("SYNTAX_ERROR",
                  "ICE pwd must be between " \o ToString(ICE_PWD_MIN_LENGTH)
                  \o " and " \o ToString(ICE_PWD_MAX_LENGTH)
                  \o " characters long.")
    ELSE IF ~AllIceChars(raw)
    THEN RTCError("SYNTAX_ERROR",
           "ICE pwd must contain only alphanumeric characters, '+', and '/'.")
    ELSE Value(raw)

\* IceParameters: default-constructed, both strings are empty.
IceParameters(ufrag, pwd) == [ufrag |-> ufrag, pwd |-> pwd]

\* IceParameters::Parse, with the validators it ran: [ret, ran].
\* A mutant: the legacy path taken as soon as the ufrag is empty.
IceParametersParse_UfragOnly(ufrag, pwd) ==
    IF ufrag = <<>>
    THEN [ret |-> Value(IceParameters(<<>>, <<>>)), ran |-> <<>>]
    ELSE LET ufrag_result == ParseIceUfrag(ufrag) IN
         IF ~ufrag_result.ok
         THEN [ret |-> ufrag_result, ran |-> <<"ParseIceUfrag">>]
         ELSE LET pwd_result == ParseIcePwd(pwd) IN
              IF ~pwd_result.ok
              THEN [ret |-> pwd_result,
                    ran |-> <<"ParseIceUfrag", "ParseIcePwd">>]
              ELSE [ret |-> Value(IceParameters(ufrag_result.value,
                                                pwd_result.value)),
                    ran |-> <<"ParseIceUfrag", "ParseIcePwd">>]

\* A mutant: the pwd stored as given, without ParseIcePwd.
IceParametersParse_NoPwdCheck(ufrag, pwd) ==
    IF ufrag = <<>> /\ pwd = <<>>
    THEN [ret |-> Value(IceParameters(<<>>, <<>>)), ran |-> <<>>]
    ELSE LET ufrag_result == ParseIceUfrag(ufrag) IN
         IF ~ufrag_result.ok
         THEN [ret |-> ufrag_result, ran |-> <<"ParseIceUfrag">>]
         ELSE [ret |-> Value(IceParameters(ufrag_result.value, pwd)),
               ran |-> <<"ParseIceUfrag">>]

\* A mutant: the pwd validated before the ufrag.
IceParametersParse_PwdFirst(ufrag, pwd) ==
    IF ufrag = <<>> /\ pwd = <<>>
    THEN [ret |-> Value(IceParameters(<<>>, <<>>)), ran |-> <<>>]
    ELSE LET pwd_result == ParseIcePwd(pwd) IN
         IF ~pwd_result.ok
         THEN [ret |-> pwd_result, ran |-> <<"ParseIcePwd">>]
         ELSE LET ufrag_result == ParseIceUfrag(ufrag) IN
              IF ~ufrag_result.ok
              THEN [ret |-> ufrag_result,
                    ran |-> <<"ParseIcePwd", "ParseIceUfrag">>]
              ELSE [ret |-> Value(IceParameters(ufrag_result.value,
                                                pwd_result.value)),
                    ran |-> <<"ParseIcePwd", "ParseIceUfrag">>]

IceParametersParse(ufrag, pwd) ==
    IF ufrag = <<>> /\ pwd = <<>>
    THEN [ret |-> Value(IceParameters(<<>>, <<>>)), ran |-> <<>>]
    ELSE LET ufrag_result == ParseIceUfrag(ufrag) IN
         IF ~ufrag_result.ok
         THEN [ret |-> ufrag_result, ran |-> <<"ParseIceUfrag">>]
         ELSE LET pwd_result == ParseIcePwd(pwd) IN
              IF ~pwd_result.ok
              THEN [ret |-> pwd_result,
                    ran |-> <<"ParseIceUfrag", "ParseIcePwd">>]
              ELSE [ret |-> Value(IceParameters(ufrag_result.value,
                                                pwd_result.value)),
                    ran |-> <<"ParseIceUfrag", "ParseIcePwd">>]

-----------------------------------------------------------------------------
\* Inputs of the validators.

\* Lengths around 0 and around each of the four length constants.
Around(n) == {k \in (n - LenSlack)..(n + LenSlack) : k >= 0}
Lengths == Around(0) \cup Around(ICE_UFRAG_MIN_LENGTH)
           \cup Around(ICE_UFRAG_MAX_LENGTH)
           \cup Around(ICE_PWD_MIN_LENGTH) \cup Around(ICE_PWD_MAX_LENGTH)

\* The string of n bytes c, with the byte at position pos replaced by d.
Fill(n, c, pos, d) == [i \in 1..n |-> IF i = pos THEN d ELSE c]

\* Bytes the strings are filled with: 'a', '+', '/', '-'.
FillBytes == {97, 43, 47, 45}

\* Every byte value at the first or the last position of an otherwise
\* uniform string, at every length of Lengths.
RawStrings ==
    {Fill(n, c, 0, c) : n \in Lengths, c \in FillBytes}
    \cup UNION {{Fill(n, 97, pos, d) : d \in Byte, pos \in {1, n}} :
                n \in Lengths \ {0}}

\* Inputs of IceParameters::Parse: valid bytes ('a', 'Z', '9', '+', '/'
\* mixed) or one bad byte ('-' first, ' ' last).
PairStrings ==
    {Fill(n, 97, 0, 97) : n \in Lengths}
    \cup UNION {{Fill(n, 43, 1, 90), Fill(n, 47, n, 57),
                 Fill(n, 97, 1, 45), Fill(n, 97, n, 32)} :
                n \in Lengths \ {0}}

-----------------------------------------------------------------------------
\* The credential validators are pure: a behaviour is one call, on inputs
\* chosen by the caller.

CredInit ==
    /\ op = "none"
    /\ raw_ufrag = <<>>
    /\ raw_pwd = <<>>
    /\ result = Value(<<>>)
    /\ evaluated = <<>>

CallParseIceUfrag ==
    \E s \in RawStrings :
        /\ op = "none"
        /\ op' = "ParseIceUfrag"
        /\ raw_ufrag' = s
        /\ raw_pwd' = <<>>
        /\ result' = ParseIceUfrag(s)
        /\ evaluated' = <<"ParseIceUfrag">>
        /\ UNCHANGED <<roleVars, tdVars>>

CallParseIcePwd ==
    \E s \in RawStrings :
        /\ op = "none"
        /\ op' = "ParseIcePwd"
        /\ raw_ufrag' = <<>>
        /\ raw_pwd' = s
        /\ result' = ParseIcePwd(s)
        /\ evaluated' = <<"ParseIcePwd">>
        /\ UNCHANGED <<roleVars, tdVars>>

CallParse ==
    \E u \in PairStrings, p \in PairStrings :
        /\ op = "none"
        /\ op' = "Parse"
        /\ raw_ufrag' = u
        /\ raw_pwd' = p
        /\ result' = IceParametersParse(u, p).ret
        /\ evaluated' = IceParametersParse(u, p).ran
        /\ UNCHANGED <<roleVars, tdVars>>

-----------------------------------------------------------------------------
\* Connection roles (enum ConnectionRole and the tokens of
\* p2p/base/transport_description.h).

CONNECTIONROLE_NONE == 0
CONNECTIONROLE_ACTIVE == 1
CONNECTIONROLE_PASSIVE == 2
CONNECTIONROLE_ACTPASS == 3
CONNECTIONROLE_HOLDCONN == 4

\* "active", "passive", "actpass", "holdconn"
CONNECTIONROLE_ACTIVE_STR == <<97, 99, 116, 105, 118, 101>>
CONNECTIONROLE_PASSIVE_STR == <<112, 97, 115, 115, 105, 118, 101>>
CONNECTIONROLE_ACTPASS_STR == <<97, 99, 116, 112, 97, 115, 115>>
CONNECTIONROLE_HOLDCONN_STR == <<104, 111, 108, 100, 99, 111, 110, 110>>

\* absl::ascii_tolower
ascii_tolower(c) == IF 65 <= c /\ c <= 90 THEN c + 32 ELSE c

\* absl::EqualsIgnoreCase: equal sizes and equal bytes after ascii_tolower.
EqualsIgnoreCase(a, b) ==
    /\ Len(a) = Len(b)
    /\ \A i \in 1..Len(a) : ascii_tolower(a[i]) = ascii_tolower(b[i])

\* The table of StringToConnectionRole, indexed from 0 as in the code.
roles(i) ==
    <<CONNECTIONROLE_ACTIVE_STR, CONNECTIONROLE_PASSIVE_STR,
      CONNECTIONROLE_ACTPASS_STR, CONNECTIONROLE_HOLDCONN_STR>>[i + 1]

\* A mutant: the table in the order of ConnectionRoleToString's switch.
roles_SwitchOrder(i) ==
    <<CONNECTIONROLE_ACTIVE_STR, CONNECTIONROLE_ACTPASS_STR,
      CONNECTIONROLE_PASSIVE_STR, CONNECTIONROLE_HOLDCONN_STR>>[i + 1]

StringToConnectionRole_SwitchOrder(str, old) ==
    LET hits == {i \in 0..3 : EqualsIgnoreCase(roles_SwitchOrder(i), str)} IN
    IF hits = {} THEN [ok |-> FALSE, role |-> old]
    ELSE [ok |-> TRUE,
          role |-> CONNECTIONROLE_ACTIVE
                   + (CHOOSE i \in hits : \A j \in hits : i <= j)]

\* A mutant: a prefix match in place of EqualsIgnoreCase.
StringToConnectionRole_Prefix(str, old) ==
    LET hits == {i \in 0..3 :
                    /\ Len(str) <= Len(roles(i))
                    /\ EqualsIgnoreCase(SubSeq(roles(i), 1, Len(str)), str)} IN
    IF hits = {} THEN [ok |-> FALSE, role |-> old]
    ELSE [ok |-> TRUE,
          role |-> CONNECTIONROLE_ACTIVE
                   + (CHOOSE i \in hits : \A j \in hits : i <= j)]

\* StringToConnectionRole(role_str, role): the first i whose roles[i] matches;
\* *role (old) is written only on success.
StringToConnectionRole(str, old) ==
    LET hits == {i \in 0..3 : EqualsIgnoreCase(roles(i), str)} IN
    IF hits = {} THEN [ok |-> FALSE, role |-> old]
    ELSE [ok |-> TRUE,
          role |-> CONNECTIONROLE_ACTIVE
                   + (CHOOSE i \in hits : \A j \in hits : i <= j)]

\* ConnectionRoleToString(role, role_str): *role_str (old) is written only
\* on success.
ConnectionRoleToString(r, old) ==
    CASE r = CONNECTIONROLE_ACTIVE   -> [ok |-> TRUE, str |-> CONNECTIONROLE_ACTIVE_STR]
      [] r = CONNECTIONROLE_ACTPASS  -> [ok |-> TRUE, str |-> CONNECTIONROLE_ACTPASS_STR]
      [] r = CONNECTIONROLE_PASSIVE  -> [ok |-> TRUE, str |-> CONNECTIONROLE_PASSIVE_STR]
      [] r = CONNECTIONROLE_HOLDCONN -> [ok |-> TRUE, str |-> CONNECTIONROLE_HOLDCONN_STR]
      [] OTHER -> [ok |-> FALSE, str |-> old]

\* Role values a caller can pass: the enumerators and values outside them.
RoleValues == -1..6

Tokens == {CONNECTIONROLE_ACTIVE_STR, CONNECTIONROLE_PASSIVE_STR,
           CONNECTIONROLE_ACTPASS_STR, CONNECTIONROLE_HOLDCONN_STR}

\* Texts a caller can pass that are no token: "", "none", a token cut at
\* either end, a token with a byte appended ('s', ' ', NUL), a token with one
\* byte replaced (high bit set, 64 lower, '-'); and the tokens themselves.
Texts ==
    {<<>>, <<110, 111, 110, 101>>} \cup Tokens
    \cup UNION {{SubSeq(t, 1, Len(t) - 1), SubSeq(t, 2, Len(t)),
                 Append(t, 115), Append(t, 32), Append(t, 0)} : t \in Tokens}
    \cup UNION {UNION {{[t EXCEPT ![i] = t[i] + 128],
                        [t EXCEPT ![i] = t[i] - 64],
                        [t EXCEPT ![i] = 45]} : i \in 1..Len(t)} :
                t \in Tokens}

RoleInit ==
    /\ phase = "start"
    /\ role \in RoleValues
    /\ role_str \in Texts
    /\ to_ok = FALSE
    /\ origin = -1
    /\ role_out \in {CONNECTIONROLE_NONE, CONNECTIONROLE_ACTPASS}
    /\ from_ok = FALSE

DoConnectionRoleToString ==
    /\ phase = "start"
    /\ LET r == ConnectionRoleToString(role, role_str) IN
         /\ to_ok' = r.ok
         /\ role_str' = r.str
         /\ origin' = IF r.ok THEN role ELSE -1
    /\ phase' = "named"
    /\ UNCHANGED <<role, role_out, from_ok>>
    /\ UNCHANGED <<credVars, tdVars>>

\* The caller changes the case of one letter of the token it got.
ChangeCase ==
    /\ phase = "named"
    /\ to_ok
    /\ \E i \in 1..Len(role_str) :
         role_str' = [role_str EXCEPT ![i] =
                        IF 65 <= @ /\ @ <= 90 THEN @ + 32
                        ELSE IF 97 <= @ /\ @ <= 122 THEN @ - 32 ELSE @]
    /\ UNCHANGED <<phase, role, to_ok, origin, role_out, from_ok>>
    /\ UNCHANGED <<credVars, tdVars>>

DoStringToConnectionRole ==
    /\ phase \in {"start", "named"}
    /\ LET r == StringToConnectionRole(role_str, role_out) IN
         /\ from_ok' = r.ok
         /\ role_out' = r.role
    /\ phase' = IF phase = "named" THEN "named_parsed" ELSE "parsed"
    /\ UNCHANGED <<role, role_str, to_ok, origin>>
    /\ UNCHANGED <<credVars, tdVars>>

-----------------------------------------------------------------------------
\* TransportDescription.  Each object lives in a slot; identity_fingerprint
\* is a std::unique_ptr<rtc::SSLFingerprint>: 0 (null) or the address of a
\* heap cell the object owns.  Option strings, ufrag and pwd are opaque here
\* (the type does not look into them), so they are written as names.

Slots == 1..MaxTD

\* One more cell than objects: operator= allocates the new fingerprint before
\* reset() frees the old one.
Addrs == 1..(MaxTD + 1)

\* The fingerprint owned by the caller, outside the heap of the model.
ExtAddrs == {-1}
ExtFingerprint(p) == "fpA"

Dead == [alive |-> FALSE]

Live(t) == {s \in Slots : t[s].alive}

\* *p
Deref(h, p) == IF p \in ExtAddrs THEN ExtFingerprint(p) ELSE h[p]

\* operator new: the allocator is first-fit.  Cells are interchangeable (no
\* operation looks at an address but to compare it with 0), so every other
\* allocator yields the same states up to a renaming of the cells.
New(h) == CHOOSE a \in Addrs : h[a] = "Free" /\ \A b \in 1..(a - 1) : h[b] # "Free"

\* TransportDescription::CopyFingerprint (transport_description.h): null for
\* null, else new SSLFingerprint(*from).  The pointer returned and the heap
\* afterwards.
CopyFingerprint(h, from) ==
    IF from = 0 THEN [ptr |-> 0, heap |-> h]
    ELSE [ptr |-> New(h), heap |-> [h EXCEPT ![New(h)] = Deref(h, from)]]

\* std::unique_ptr: delete of the owned cell (reset(), ~unique_ptr()).
Delete(h, p) == IF p = 0 THEN h ELSE [h EXCEPT ![p] = "Free"]

\* TransportDescription()
DefaultConstructed ==
    [alive |-> TRUE,
     transport_options |-> <<>>,
     ice_ufrag |-> "",
     ice_pwd |-> "",
     ice_mode |-> "ICEMODE_FULL",
     connection_role |-> CONNECTIONROLE_NONE,
     identity_fingerprint |-> 0,
     opaque_parameters |-> "nullopt"]

\* TransportDescription(transport_options, ice_ufrag, ice_pwd, ice_mode, role,
\* identity_fingerprint), given the pointer CopyFingerprint returned.
FullConstructed(a, ptr) ==
    [alive |-> TRUE,
     transport_options |-> a.transport_options,
     ice_ufrag |-> a.ice_ufrag,
     ice_pwd |-> a.ice_pwd,
     ice_mode |-> a.ice_mode,
     connection_role |-> a.role,
     identity_fingerprint |-> ptr,
     opaque_parameters |-> "nullopt"]

\* TransportDescription(ice_ufrag, ice_pwd)
CredConstructed(ufrag, pwd) ==
    [alive |-> TRUE,
     transport_options |-> <<>>,
     ice_ufrag |-> ufrag,
     ice_pwd |-> pwd,
     ice_mode |-> "ICEMODE_FULL",
     connection_role |-> CONNECTIONROLE_NONE,
     identity_fingerprint |-> 0,
     opaque_parameters |-> "nullopt"]

\* A mutant: the copy constructor takes over the source's pointer.
CopyCtorFingerprint_Alias(h, from) ==
    [ptr |-> from.identity_fingerprint, heap |-> h]

\* The copy constructor's initializer of identity_fingerprint.
CopyCtorFingerprint(h, from) == CopyFingerprint(h, from.identity_fingerprint)

\* TransportDescription(const TransportDescription& from), given the pointer
\* CopyFingerprint returned.
CopyConstructed(from, ptr) ==
    [alive |-> TRUE,
     transport_options |-> from.transport_options,
     ice_ufrag |-> from.ice_ufrag,
     ice_pwd |-> from.ice_pwd,
     ice_mode |-> from.ice_mode,
     connection_role |-> from.connection_role,
     identity_fingerprint |-> ptr,
     opaque_parameters |-> from.opaque_parameters]

\* A mutant: operator= without its self-assignment guard.
IsSelfAssignment_Never(to, from) == FALSE

\* this == &from
IsSelfAssignment(to, from) == to = from

\* A mutant: operator= that forgets opaque_parameters.
Assigned_NoOpaque(this, from, ptr) ==
    [this EXCEPT !.transport_options = from.transport_options,
                 !.ice_ufrag = from.ice_ufrag,
                 !.ice_pwd = from.ice_pwd,
                 !.ice_mode = from.ice_mode,
                 !.connection_role = from.connection_role,
                 !.identity_fingerprint = ptr]

\* *this after the assignments of operator=, given the pointer
\* CopyFingerprint returned.
Assigned(this, from, ptr) ==
    [this EXCEPT !.transport_options = from.transport_options,
                 !.ice_ufrag = from.ice_ufrag,
                 !.ice_pwd = from.ice_pwd,
                 !.ice_mode = from.ice_mode,
                 !.connection_role = from.connection_role,
                 !.identity_fingerprint = ptr,
                 !.opaque_parameters = from.opaque_parameters]

\* Arguments of the full constructor: every field differs from its default
\* and from what the (ufrag, pwd) constructor is given.
FullArgs ==
    {[transport_options |-> <<"trickle", "ice2">>, ice_ufrag |-> "uf1",
      ice_pwd |-> "pw1", ice_mode |-> "ICEMODE_LITE",
      role |-> CONNECTIONROLE_ACTIVE]}

\* Fingerprint pointers a caller can pass: null, its own fingerprint, or
\* the fingerprint of a live TransportDescription.
FingerprintArgs ==
    {0} \cup ExtAddrs \cup {td[s].identity_fingerprint : s \in Live(td)}

\* The record of the copy made last: the slot written (copy), the slot read
\* (of; the same slot for a self-assignment), the operation (by), and whether
\* that operation is the step just taken (fresh).  It is kept while nothing
\* happens but to the source of the copy (the source is destroyed, or its
\* fingerprint reassigned), and dropped by every other operation.
NoCopy == [copy |-> 0, of |-> 0, by |-> "none", fresh |-> FALSE]
Copied(t, f, by) == [copy |-> t, of |-> f, by |-> by, fresh |-> TRUE]
SourceOnly(s) ==
    IF made.of = s /\ made.copy # s THEN [made EXCEPT !.fresh = FALSE]
    ELSE NoCopy

TDInit ==
    /\ td = [s \in Slots |-> Dead]
    /\ heap = [a \in Addrs |-> "Free"]
    /\ made = NoCopy

ConstructDefault ==
    \E s \in Slots :
        /\ ~td[s].alive
        /\ td' = [td EXCEPT ![s] = DefaultConstructed]
        /\ heap' = heap
        /\ made' = NoCopy
        /\ UNCHANGED <<credVars, roleVars>>

ConstructFull ==
    \E s \in Slots, a \in FullArgs, p \in FingerprintArgs :
        /\ ~td[s].alive
        /\ LET c == CopyFingerprint(heap, p) IN
             /\ td' = [td EXCEPT ![s] = FullConstructed(a, c.ptr)]
             /\ heap' = c.heap
        /\ made' = NoCopy
        /\ UNCHANGED <<credVars, roleVars>>

ConstructCred ==
    \E s \in Slots :
        /\ ~td[s].alive
        /\ td' = [td EXCEPT ![s] = CredConstructed("uf3", "pw3")]
        /\ heap' = heap
        /\ made' = NoCopy
        /\ UNCHANGED <<credVars, roleVars>>

CopyConstruct ==
    \E s \in Slots, f \in Live(td) :
        /\ ~td[s].alive
        /\ LET c == CopyCtorFingerprint(heap, td[f]) IN
             /\ td' = [td EXCEPT ![s] = CopyConstructed(td[f], c.ptr)]
             /\ heap' = c.heap
        /\ made' = Copied(s, f, "CopyConstruct")
        /\ UNCHANGED <<credVars, roleVars>>

\* operator=
Assign ==
    \E t \in Live(td), f \in Live(td) :
        /\ IF IsSelfAssignment(t, f)
           THEN /\ td' = td
                /\ heap' = heap
           ELSE /\ LET c == CopyFingerprint(heap, td[f].identity_fingerprint) IN
                     /\ td' = [td EXCEPT ![t] = Assigned(td[t], td[f], c.ptr)]
                     /\ heap' = Delete(c.heap, td[t].identity_fingerprint)
        /\ made' = Copied(t, f, "Assign")
        /\ UNCHANGED <<credVars, roleVars>>

\* ~TransportDescription()
Destroy ==
    \E s \in Live(td) :
        /\ td' = [td EXCEPT ![s] = Dead]
        /\ heap' = Delete(heap, td[s].identity_fingerprint)
        /\ made' = SourceOnly(s)
        /\ UNCHANGED <<credVars, roleVars>>

\* The caller reassigns the public member identity_fingerprint:
\* identity_fingerprint.reset(CopyFingerprint(p)), p null or its own.
SetFingerprint ==
    \E s \in Live(td), p \in {0} \cup ExtAddrs :
        /\ LET c == CopyFingerprint(heap, p) IN
             /\ td' = [td EXCEPT ![s].identity_fingerprint = c.ptr]
             /\ heap' = Delete(c.heap, td[s].identity_fingerprint)
        /\ made' = SourceOnly(s)
        /\ UNCHANGED <<credVars, roleVars>>

\* The caller sets the public member opaque_parameters.
SetOpaqueParameters ==
    \E s \in Live(td) :
        /\ td[s].opaque_parameters = "nullopt"
        /\ td' = [td EXCEPT ![s].opaque_parameters = "opaque1"]
        /\ heap' = heap
        /\ made' = NoCopy
        /\ UNCHANGED <<credVars, roleVars>>

-----------------------------------------------------------------------------
\* Specifications.  Each part of the file is checked on its own; the
\* variables of the other parts stay at their initial values.

CredSpecInit ==
    /\ CredInit
    /\ phase = "idle" /\ role = 0 /\ role_str = <<>> /\ to_ok = FALSE
    /\ origin = -1 /\ role_out = 0 /\ from_ok = FALSE
    /\ td = <<>> /\ heap = <<>> /\ made = NoCopy

RoleSpecInit ==
    /\ RoleInit
    /\ op = "none" /\ raw_ufrag = <<>> /\ raw_pwd = <<>>
    /\ result = Value(<<>>) /\ evaluated = <<>>
    /\ td = <<>> /\ heap = <<>> /\ made = NoCopy

TDSpecInit ==
    /\ TDInit
    /\ op = "none" /\ raw_ufrag = <<>> /\ raw_pwd = <<>>
    /\ result = Value(<<>>) /\ evaluated = <<>>
    /\ phase = "idle" /\ role = 0 /\ role_str = <<>> /\ to_ok = FALSE
    /\ origin = -1 /\ role_out = 0 /\ from_ok = FALSE

CredNext ==
    \/ CallParseIceUfrag
    \/ CallParseIcePwd
    \/ CallParse

RoleNext ==
    \/ DoConnectionRoleToString
    \/ ChangeCase
    \/ DoStringToConnectionRole

TDNext ==
    \/ ConstructDefault
    \/ ConstructFull
    \/ ConstructCred
    \/ CopyConstruct
    \/ Assign
    \/ Destroy
    \/ SetFingerprint
    \/ SetOpaqueParameters

CredSpec == CredSpecInit /\ [][CredNext]_vars
RoleSpec == RoleSpecInit /\ [][RoleNext]_vars
TDSpec == TDSpecInit /\ [][TDNext]_vars

-----------------------------------------------------------------------------
\* Properties of the credential validators (CredSpec).

\* The allowed characters, as the specification lists them:
\* '+', '/', '0'-'9', 'A'-'Z', 'a'-'z'.
Allowed == {43, 47} \cup (48..57) \cup (65..90) \cup (97..122)

InBounds(s, min, max) == min <= Len(s) /\ Len(s) <= max
OnlyAllowed(s) == \A i \in 1..Len(s) : s[i] \in Allowed
WellFormed(s, min, max) == InBounds(s, min, max) /\ OnlyAllowed(s)
UfragWellFormed(s) == WellFormed(s, ICE_UFRAG_MIN_LENGTH, ICE_UFRAG_MAX_LENGTH)
PwdWellFormed(s) == WellFormed(s, ICE_PWD_MIN_LENGTH, ICE_PWD_MAX_LENGTH)

SyntaxError(r) == ~r.ok /\ r.type = "SYNTAX_ERROR"

UfragLengthMessage ==
    "ICE ufrag must be between " \o ToString(ICE_UFRAG_MIN_LENGTH) \o " and "
    \o ToString(ICE_UFRAG_MAX_LENGTH) \o " characters long."
PwdLengthMessage ==
    "ICE pwd must be between " \o ToString(ICE_PWD_MIN_LENGTH) \o " and "
    \o ToString(ICE_PWD_MAX_LENGTH) \o " characters long."
UfragCharsMessage ==
    "ICE ufrag must contain only alphanumeric characters, '+', and '/'."
PwdCharsMessage ==
    "ICE pwd must contain only alphanumeric characters, '+', and '/'."

\* C1: ParseIceUfrag(s) succeeds exactly when the length of s is within the
\* ufrag bounds and every character of s is alphanumeric, '+' or '/', and then
\* returns s unchanged; otherwise it fails with a SYNTAX_ERROR.  The same for
\* ParseIcePwd with the pwd bounds.
C1_ParseExact ==
    /\ op = "ParseIceUfrag" =>
         IF UfragWellFormed(raw_ufrag)
         THEN result.ok /\ result.value = raw_ufrag
         ELSE SyntaxError(result)
    /\ op = "ParseIcePwd" =>
         IF PwdWellFormed(raw_pwd)
         THEN result.ok /\ result.value = raw_pwd
         ELSE SyntaxError(result)

\* A ufrag of the maximum length that starts with '+' is accepted.
C1_Witness ==
    /\ op = "ParseIceUfrag"
    /\ Len(raw_ufrag) = ICE_UFRAG_MAX_LENGTH
    /\ raw_ufrag[1] = 43
    /\ result.ok /\ result.value = raw_ufrag

\* C2: a successful IceParameters::Parse returns a value that is fully empty
\* or fully validated (both strings non-empty, each within its own bounds and
\* of allowed characters only); never exactly one of them empty.
C2_EmptyOrValidated ==
    (op = "Parse" /\ result.ok) =>
        \/ result.value.ufrag = <<>> /\ result.value.pwd = <<>>
        \/ /\ result.value.ufrag # <<>> /\ result.value.pwd # <<>>
           /\ UfragWellFormed(result.value.ufrag)
           /\ PwdWellFormed(result.value.pwd)

\* Parse succeeded on a non-empty ufrag and a pwd of the minimum length.
C2_Witness ==
    /\ op = "Parse" /\ result.ok
    /\ result.value.ufrag # <<>>
    /\ Len(result.value.pwd) = ICE_PWD_MIN_LENGTH

\* C3: Parse("", "") succeeds with both fields empty and runs no validator;
\* with exactly one input empty Parse fails with a SYNTAX_ERROR.
C3_LegacyEmpty ==
    op = "Parse" =>
        /\ (raw_ufrag = <<>> /\ raw_pwd = <<>>) =>
              /\ result.ok
              /\ result.value.ufrag = <<>> /\ result.value.pwd = <<>>
              /\ evaluated = <<>>
        /\ ((raw_ufrag = <<>>) # (raw_pwd = <<>>)) => SyntaxError(result)

\* Parse of an empty ufrag with a valid pwd has failed.
C3_Witness ==
    /\ op = "Parse"
    /\ raw_ufrag = <<>> /\ PwdWellFormed(raw_pwd)
    /\ SyntaxError(result)

\* C9: the validators check the length before the characters: a string whose
\* length is out of bounds gets the length error (naming the field and its
\* bounds), also when it has disallowed characters; the character error is
\* returned only for strings whose length is within bounds.
C9_LengthFirst ==
    /\ op = "ParseIceUfrag" =>
         /\ ~InBounds(raw_ufrag, ICE_UFRAG_MIN_LENGTH, ICE_UFRAG_MAX_LENGTH)
              => (~result.ok /\ result.message = UfragLengthMessage)
         /\ (~result.ok /\ result.message # UfragLengthMessage) =>
              /\ result.message = UfragCharsMessage
              /\ InBounds(raw_ufrag, ICE_UFRAG_MIN_LENGTH, ICE_UFRAG_MAX_LENGTH)
    /\ op = "ParseIcePwd" =>
         /\ ~InBounds(raw_pwd, ICE_PWD_MIN_LENGTH, ICE_PWD_MAX_LENGTH)
              => (~result.ok /\ result.message = PwdLengthMessage)
         /\ (~result.ok /\ result.message # PwdLengthMessage) =>
              /\ result.message = PwdCharsMessage
              /\ InBounds(raw_pwd, ICE_PWD_MIN_LENGTH, ICE_PWD_MAX_LENGTH)

\* A pwd that is too short and has a disallowed character got the length error.
C9_Witness ==
    /\ op = "ParseIcePwd"
    /\ raw_pwd # <<>> /\ Len(raw_pwd) < ICE_PWD_MIN_LENGTH
    /\ ~OnlyAllowed(raw_pwd)
    /\ ~result.ok /\ result.message = PwdLengthMessage

\* C10: when the inputs are not both empty, Parse validates the ufrag first:
\* an invalid ufrag yields the ufrag's error and the pwd is not evaluated, also
\* when the pwd is invalid too; the pwd's error is returned only when the
\* ufrag is valid; the error is a single one.
C10_UfragFirst ==
    (op = "Parse" /\ ~(raw_ufrag = <<>> /\ raw_pwd = <<>>)) =>
        /\ ~UfragWellFormed(raw_ufrag) =>
              /\ ~result.ok
              /\ result.message \in {UfragLengthMessage, UfragCharsMessage}
              /\ evaluated = <<"ParseIceUfrag">>
        /\ (UfragWellFormed(raw_ufrag) /\ ~PwdWellFormed(raw_pwd)) =>
              /\ ~result.ok
              /\ result.message \in {PwdLengthMessage, PwdCharsMessage}
              /\ evaluated = <<"ParseIceUfrag", "ParseIcePwd">>
        /\ ~result.ok =>
              (~UfragWellFormed(raw_ufrag) \/ ~PwdWellFormed(raw_pwd))

\* Both inputs invalid (and not empty): the ufrag's error came back and the
\* pwd was never looked at.
C10_Witness ==
    /\ op = "Parse"
    /\ raw_ufrag # <<>> /\ ~UfragWellFormed(raw_ufrag)
    /\ raw_pwd # <<>> /\ ~PwdWellFormed(raw_pwd)
    /\ ~result.ok /\ evaluated = <<"ParseIceUfrag">>

-----------------------------------------------------------------------------
\* Properties of the connection-role conversions (RoleSpec).

NamedRoles == {CONNECTIONROLE_ACTIVE, CONNECTIONROLE_PASSIVE,
               CONNECTIONROLE_ACTPASS, CONNECTIONROLE_HOLDCONN}

\* s is token t with any of its (lower-case) letters in upper case.
CaseVariant(s, t) ==
    /\ Len(s) = Len(t)
    /\ \A i \in 1..Len(t) : s[i] = t[i] \/ s[i] = t[i] - 32

\* C4: for each of Active, Passive, ActPass, HoldConn, ConnectionRoleToString
\* succeeds with a token, and StringToConnectionRole of that token, or of any
\* upper/lower-case variant of it, succeeds and returns the original role.
C4_RoundTrip ==
    /\ (phase = "named" /\ role \in NamedRoles) => (to_ok /\ origin = role)
    /\ (phase = "named_parsed" /\ role \in NamedRoles) =>
          (to_ok /\ origin = role /\ from_ok /\ role_out = role)

\* "Passive" (capital P), made from the token of Passive, parsed back to Passive.
C4_Witness ==
    /\ phase = "named_parsed"
    /\ origin = CONNECTIONROLE_PASSIVE
    /\ role_str[1] = 80
    /\ from_ok /\ role_out = CONNECTIONROLE_PASSIVE

\* C5: ConnectionRoleToString fails for None and for every value that is
\* none of the four named roles; StringToConnectionRole fails for every text
\* that is no case variant of one of the four tokens, and never yields None.
C5_NotFound ==
    /\ role \notin NamedRoles => (~to_ok /\ origin = -1)
    /\ phase \in {"parsed", "named_parsed"} =>
          /\ (\A t \in Tokens : ~CaseVariant(role_str, t)) => ~from_ok
          /\ from_ok => role_out \in NamedRoles

\* ToString of None failed, and "active " (trailing blank) was not found.
C5_Witness ==
    /\ phase = "named_parsed"
    /\ role = CONNECTIONROLE_NONE /\ ~to_ok
    /\ role_str = Append(CONNECTIONROLE_ACTIVE_STR, 32)
    /\ ~from_ok

-----------------------------------------------------------------------------
\* Properties of TransportDescription (TDSpec).

\* The value of s's fingerprint in (t, h): "null", or what its cell holds.
FingerprintValue(t, h, s) ==
    IF t[s].identity_fingerprint = 0 THEN "null"
    ELSE Deref(h, t[s].identity_fingerprint)

\* Every live object with a fingerprint owns an allocated cell of the heap
\* that no other live object points to.
ExclusivelyOwned ==
    \A s \in Live(td) :
        td[s].identity_fingerprint # 0 =>
            /\ td[s].identity_fingerprint \in Addrs
            /\ heap[td[s].identity_fingerprint] # "Free"
            /\ \A o \in Live(td) \ {s} :
                  td[o].identity_fingerprint # td[s].identity_fingerprint

\* Destroying the source of a copy, or reassigning the source's fingerprint,
\* leaves the copy alive, with its pointer and its fingerprint value.
CopyOutlivesSource ==
    (/\ made.copy # 0 /\ made.copy # made.of
     /\ made'.copy = made.copy /\ made'.of = made.of /\ ~made'.fresh)
    => /\ td'[made.copy] = td[made.copy]
       /\ FingerprintValue(td', heap', made.copy)
             = FingerprintValue(td, heap, made.copy)

\* C6: no two live TransportDescriptions own the same fingerprint storage; a
\* copy holds its own fingerprint, which destroying the source or reassigning
\* the source's fingerprint does not change.
C6_DeepCopy == []ExclusivelyOwned /\ [][CopyOutlivesSource]_vars

\* The source of a copy has been destroyed, and the copy, the only object
\* left, still holds the fingerprint it was given.
C6_Witness ==
    /\ made.copy # 0 /\ made.copy # made.of
    /\ ~td[made.of].alive
    /\ Live(td) = {made.copy}
    /\ FingerprintValue(td, heap, made.copy) = "fpA"

\* C7: assigning a TransportDescription to itself changes nothing: no field,
\* and neither the fingerprint's value nor its storage.
C7_SelfAssignment ==
    [][(made'.copy # 0 /\ made'.copy = made'.of) => (td' = td /\ heap' = heap)]_vars

\* An object with options, a fingerprint and opaque parameters has just been
\* assigned to itself.
C7_Witness ==
    /\ made.by = "Assign" /\ made.copy # 0 /\ made.copy = made.of
    /\ td[made.copy].identity_fingerprint # 0
    /\ td[made.copy].transport_options # <<>>
    /\ td[made.copy].opaque_parameters # "nullopt"

\* The target t of a copy from f: every field of t afterwards is f's before,
\* the fingerprint by value (null for null), and f is as it was.
CopiedFrom(t, f) ==
    /\ td'[t].alive
    /\ td'[t].transport_options = td[f].transport_options
    /\ td'[t].ice_ufrag = td[f].ice_ufrag
    /\ td'[t].ice_pwd = td[f].ice_pwd
    /\ td'[t].ice_mode = td[f].ice_mode
    /\ td'[t].connection_role = td[f].connection_role
    /\ td'[t].opaque_parameters = td[f].opaque_parameters
    /\ (td'[t].identity_fingerprint = 0) = (td[f].identity_fingerprint = 0)
    /\ FingerprintValue(td', heap', t) = FingerprintValue(td, heap, f)
    /\ td'[f] = td[f]
    /\ FingerprintValue(td', heap', f) = FingerprintValue(td, heap, f)

\* C8: after copy-construction or copy-assignment the target equals the
\* source in every field, whatever it held before, and the source is unchanged.
C8_CopyEqualsSource ==
    [][(made'.fresh /\ made'.copy # made'.of)
         => CopiedFrom(made'.copy, made'.of)]_vars

\* An assignment has just been made, to a target that held a fingerprint, from
\* a source with options, another fingerprint and opaque parameters.
C8_Witness ==
    /\ made.fresh /\ made.by = "Assign" /\ made.copy # made.of
    /\ td[made.of].transport_options # <<>>
    /\ FingerprintValue(td, heap, made.of) = "fpA"
    /\ td[made.of].opaque_parameters # "nullopt"
    /\ td[made.copy].opaque_parameters = td[made.of].opaque_parameters
    /\ td[made.copy].identity_fingerprint # 0

====
